---- MODULE Spec2Model ----
(***************************************************************************)
(* openapi-enforcer-middleware (src/dist/index.js, lines 43-503).          *)
(*                                                                         *)
(* The state is the middleware instance (its options with the registered   *)
(* handler list, the definition promise, the controller registries of      *)
(* controllers()/mocks()) and, per request, the response object, the       *)
(* request copy, the runners' remaining queues and the callbacks that are  *)
(* still pending.  One action is one JavaScript job: synchronous code runs *)
(* to completion inside the action, a promise reaction or a timer callback *)
(* is a later action.                                                      *)
(*                                                                         *)
(* Error values are Error objects (truthy); None stands for `undefined`.   *)
(* Status codes are kept as the strings the contract uses ("" is unset).   *)
(***************************************************************************)
EXTENDS Naturals, Sequences, FiniteSets, TLC

VARIABLES options, promise, registries, rq

vars == <<options, promise, registries, rq>>

\* ------------------------------------------------------------------ bounds
\* longest handler list registered with use() in the runner-centred runs
MaxChain == 4
\* longest handler list registered in the full middleware runs
MaxUse == 2
\* most registrations of controllers()/mocks() in the registry-centred runs
MaxMap == 2
\* longest handler list registered in the runs with two requests in flight
MaxConc == 2
\* longest handler list in the runs with handlers that forward more than once
MaxForward == 3

\* longest handler list in the runs that mix handlers advancing at once and later
MaxAsync == 3
\* longest handler list in the runs that are followed to their end
MaxLive == 3
\* longest handler list registered in the controller-centred runs
MaxCtl == 2
\* longest controller array bound in the controller-centred runs
MaxArray == 2

\* the requests in flight
Reqs == {1, 2}

\* the request of the runs that have one request in flight
One == {1}

\* ------------------------------------------------------------------ errors
None == [name |-> "none", statusCode |-> "", messages |-> <<>>]

Truthy(err) == err # None

\* Error('error'), what the user handlers of the tests pass or throw
UserError == [name |-> "error", statusCode |-> "", messages |-> <<>>]

\* the rejection of Enforcer(definition): Error(exception.toString())
DefinitionError == [name |-> "definition", statusCode |-> "", messages |-> <<>>]

Exception(header) == [header |-> header, statusCode |-> "", messages |-> <<>>]

\* a message of an exception: the child it is filed under (exception.at, ""
\* for the exception itself), its text, and the operation name or the array
\* index the text ends with
Sub(at, message, name, index) == [at |-> at, message |-> message, name |-> name, index |-> index]

\* exception.message(text)
Message(exception, text) == [exception EXCEPT !.messages = Append(@, Sub("", text, "", 0))]

\* Error(exception.toString()) with the exception's own statusCode copied
errorFromException(exception) ==
  [name |-> exception.header, statusCode |-> exception.statusCode,
   messages |-> exception.messages]

\* ------------------------------------------------------------ the contract
ENFORCER_HEADER == "x-openapi-enforcer"

Absent == "<absent>"

\* a response of an operation: its code, what random() of its schema gives
\* ("none": no schema), and for a version 3 response what random() of the
\* schema of the negotiated content type gives ("none": no content map,
\* "noschema": a content type without a schema)
Response(code, schema, content) == [code |-> code, schema |-> schema, content |-> content]

\* an operation with its controller annotations and its responses in the order
\* Object.keys(operation.responses) enumerates them
Operation(xController, operationId, responses) ==
  [xController |-> xController, xOperation |-> "", operationId |-> operationId,
   responses |-> responses]

\* a path item with its one method
PathItem(path, xController, operation) ==
  [path |-> path, xController |-> xController, operation |-> operation]

\* the resolved definition: `swagger` for version 2, else the `openapi` version
\* string, character by character
OpenApi(swagger, version, xController, paths) ==
  [swagger |-> swagger, openapi |-> version, xController |-> xController, paths |-> paths]

\* what the definition promise holds while it has not resolved: no definition
Unresolved == OpenApi(FALSE, <<>>, "", <<>>)

V2Responses ==
  <<Response("200", "value", "none"), Response("404", "error", "none"),
    Response("503", "warning", "none")>>

People(xController, responses) ==
  <<PathItem("/people", "", Operation(xController, "list", responses))>>

Catalogs ==
  { OpenApi(TRUE, <<>>, "", People("people", V2Responses)),
    OpenApi(TRUE, <<>>, "", People("", V2Responses)),
    OpenApi(TRUE, <<>>, "", People("", <<>>)),
    OpenApi(FALSE, <<"3", ".", "0">>, "", People("", <<Response("200", "none", "value"), Response("404", "none", "noschema")>>)) }

\* Object.keys(operation.responses)
ResponseCodes(operation) ==
  [i \in 1 .. Len(operation.responses) |-> operation.responses[i].code]

\* operation.responses.hasOwnProperty(code)
HasResponse(operation, code) ==
  \E i \in 1 .. Len(operation.responses) : operation.responses[i].code = code

\* operation.responses[code]
ResponseOf(operation, code) ==
  operation.responses[CHOOSE i \in 1 .. Len(operation.responses) :
                        operation.responses[i].code = code]

\* openapi.path(method, path): the index of the matching path item, 0 for none
PathMatch(openapi, path) ==
  IF \E i \in 1 .. Len(openapi.paths) : openapi.paths[i].path = path
    THEN CHOOSE i \in 1 .. Len(openapi.paths) : openapi.paths[i].path = path
    ELSE 0

\* ------------------------------------------------------------ the requests
\* a raw request: its path, whether its parameters and body satisfy the
\* operation, its headers and its query parameters (by name)
HeaderNames == {"x-mock", "mock"}

Request(path, valid, headers, query) ==
  [path |-> path, valid |-> valid, headers |-> headers, query |-> query]

NoFields == [n \in HeaderNames |-> Absent]

\* openapi.request(requestObj): <<request, clientError>>
OpenapiRequest(openapi, req) ==
  IF PathMatch(openapi, req.path) = 0
    THEN [ok |-> FALSE, clientError |-> [Exception("Request has one or more errors") EXCEPT !.statusCode = "404"]]
    ELSE IF ~req.valid
      THEN [ok |-> FALSE, clientError |-> [Exception("Request has one or more errors") EXCEPT !.statusCode = "400"]]
      ELSE [ok |-> TRUE, clientError |-> Exception("")]

\* ------------------------------------------------------------ the handlers
\* a registered function: who wrote it, its declared parameter count
\* (Function.length), what its body does, and for the handlers that
\* controllers()/mocks() register the registry they wait for
User(arity, body) ==
  [kind |-> "user", arity |-> arity, body |-> body, reg |-> 0, automatic |-> FALSE]

\* the arrow function (req, res, next) that controllers() and mocks() register
Registered(kind, reg, automatic) ==
  [kind |-> kind, arity |-> 3, body |-> "", reg |-> reg, automatic |-> automatic]

Op(op, err, body) == [op |-> op, err |-> err, body |-> body]

\* what a user function does when it is called with err (None for a normal
\* handler), as the statements it executes
Script(body, err) ==
  CASE body = "next"      -> <<Op("next", None, "")>>
    [] body = "nextErr"   -> <<Op("next", UserError, "")>>
    [] body = "pass"      -> <<Op("next", err, "")>>
    [] body = "throw"     -> <<Op("throw", UserError, "")>>
    [] body = "later"     -> <<Op("defer", None, "")>>
    [] body = "laterErr"  -> <<Op("defer", UserError, "")>>
    [] body = "send"      -> <<Op("send", None, "good")>>
    [] body = "sendBad"   -> <<Op("send", None, "bad")>>
    [] body = "sendTwice" -> <<Op("send", None, "good"), Op("send", None, "good")>>
    [] body = "sendNext"  -> <<Op("send", None, "bad"), Op("next", None, "")>>
    [] body = "nextTwice" -> <<Op("next", None, ""), Op("next", None, "")>>
    [] body = "nextLater" -> <<Op("next", None, ""), Op("defer", None, "")>>
    [] body = "laterThrow" -> <<Op("defer", None, ""), Op("throw", UserError, "")>>
    [] OTHER              -> <<>>

\* ------------------------------------------------------ per-request state
\* what a request's history records: the kind of step, the runner and the
\* position of the handler it concerns, the error passed, the number of handlers
\* left in the runner's queue, a body, source or status code, and the marker
\* header the response carries when the step is made
Event(t, k, pos, err, rem, body) ==
  [t |-> t, k |-> k, pos |-> pos, err |-> err, rem |-> rem, body |-> body, code |-> "",
   marker |-> ""]

NoMock == [source |-> "none", specified |-> FALSE, statusCode |-> "", hasResponse |-> FALSE]

Idle ==
  [phase |-> "idle",
   req |-> Request("", FALSE, NoFields, NoFields),
   openapi |-> FALSE, operation |-> 0, mock |-> NoMock,
   statusCode |-> "", marker |-> "", send |-> "original",
   runners |-> <<>>, tasks |-> <<>>, thrown |-> None, log |-> <<>>]

\* (the set with one element has the request evaluated once, x being its value)
Log(w, e) ==
  CHOOSE w1 \in { [x EXCEPT !.log = Append(@, [e EXCEPT !.marker = x.marker])] : x \in {w} } : TRUE

\* ------------------------------------------------------------ the response
\* the transport's own res.send: the body reaches the wire as it is given, with
\* the status and the marker header the response has at that time
Transport(w, body, serialized) ==
  Log(w, [Event("write", 0, 0, None, 0, body) EXCEPT !.rem = IF serialized THEN 1 ELSE 0,
                                                      !.code = w.statusCode,
                                                      !.marker = w.marker])

\* operation.response(code, body, headers): <<response, exception>>
OperationResponse(code, body) ==
  IF body = "bad"
    THEN [ok |-> FALSE, exception |-> Exception("Response has one or more errors")]
    ELSE [ok |-> TRUE, exception |-> Exception("")]

\* next of middleware() calling the host's next without its argument
MwNextNoError(w, err) ==
  Log([w EXCEPT !.send = "original"], Event("host", 0, 0, None, 0, ""))

\* function next (err) of middleware(): restore send, call the host's next
MwNext(w, err) ==
  Log([w EXCEPT !.send = "original"],
      Event("host", 0, 0, IF Truthy(err) THEN err ELSE None, 0, ""))

\* the override leaving itself installed as res.send
SendOverrideStays(w, body) ==
  LET w1 == Log(w, Event("transform", 0, 0, None, 0, body))
      r  == OperationResponse(IF w1.statusCode = "" THEN "200" ELSE w1.statusCode, body)
  IN IF ~r.ok
       THEN MwNext([w1 EXCEPT !.statusCode = "500"], errorFromException(r.exception))
       ELSE [Transport(w1, body, TRUE) EXCEPT !.send = "override"]

\* the res.send installed by middleware()
SendOverride(w, body) ==
  LET w1 == Log([w EXCEPT !.send = "original"], Event("transform", 0, 0, None, 0, body))
      r  == OperationResponse(IF w1.statusCode = "" THEN "200" ELSE w1.statusCode, body)
  IN IF ~r.ok
       THEN MwNext([w1 EXCEPT !.statusCode = "500"], errorFromException(r.exception))
       ELSE Transport(w1, body, TRUE)

\* res.send(body), whichever function res.send is at the time
ResSend(w, body) ==
  IF w.send = "override" THEN SendOverride(w, body) ELSE Transport(w, body, FALSE)

\* res.sendStatus(code): the status and its text as the body
SendStatus(w, code) == ResSend([w EXCEPT !.statusCode = code], "status-text")

\* res.removeHeader(ENFORCER_HEADER) when the runner was asked to
RemoveHeader(w, k) == IF w.runners[k].clear THEN [w EXCEPT !.marker = ""] ELSE w

\* -------------------------------------------------------------- the runner
\* the `next` a runner is given: next of middleware() (runner 0), or the run of
\* runner k as it was handed to the handler at position pos
HostNext == [k |-> 0, pos |-> 0]

RunOf(k, pos) == [k |-> k, pos |-> pos]

\* middlewareRunner(store, clearEnforcerHeader, req, res, next): store.slice(0)
middlewareRunner(store, clearEnforcerHeader, next) ==
  [middlewares |-> store, n |-> Len(store), clear |-> clearEnforcerHeader, next |-> next]

AddTask(w, type, k, pos, err, h) ==
  [w EXCEPT !.tasks = Append(@, [type |-> type, k |-> k, pos |-> pos, err |-> err, h |-> h])]

RECURSIVE Run(_, _, _), Exec(_, _, _, _), Catch(_, _, _)

\* a call of run that resumes behind the calling handler: the queue is set
\* back to the handlers registered after it
CallNextResumes(w, k, pos, err) ==
  LET queue == SubSeq(options.middleware, pos + 1, Len(options.middleware))
      w1 == [w EXCEPT !.runners[k].middlewares = queue]
  IN Run(Log(w1, Event("advance", k, pos, err, Len(queue), "")), k, err)

\* a call run(err) of runner k made by the handler at position pos
CallNext(w, k, pos, err) ==
  Run(Log(w, Event("advance", k, pos, err, Len(w.runners[k].middlewares), "")), k, err)

\* an end of run that hands no error to the runner of the nesting handler
TerminalDropsError(w, k, err) ==
  LET w1 == Log(w, Event("terminal", k, 0, err, 0, ""))
      next == w.runners[k].next
  IN IF next.k = 0 THEN MwNext(w1, err) ELSE CallNext(w1, next.k, next.pos, None)

\* next(err) at the end of run: the queue is empty
Terminal(w, k, err) ==
  LET w1 == Log(w, Event("terminal", k, 0, err, 0, ""))
      next == w.runners[k].next
  IN IF next.k = 0 THEN MwNext(w1, err) ELSE CallNext(w1, next.k, next.pos, err)

\* the statements of a handler body, one after the other; a throw ends the
\* body and leaves the fault in w.thrown for whoever called the handler
Exec(w, k, pos, ops) ==
  IF ops = <<>> THEN w
  ELSE LET o == Head(ops) IN
    CASE o.op = "next" -> Exec(CallNext(w, k, pos, o.err), k, pos, Tail(ops))
      [] o.op = "throw" ->
           [Log(w, Event("throw", k, pos, o.err, Len(w.runners[k].middlewares), ""))
              EXCEPT !.thrown = o.err]
      [] o.op = "defer" -> Exec(AddTask(w, "advance", k, pos, o.err, User(3, "")), k, pos, Tail(ops))
      [] o.op = "send"  -> Exec(ResSend(w, o.body), k, pos, Tail(ops))
      [] OTHER -> w

\* middleware(err, req, res, run) or middleware(req, res, run)
Invoke(w, k, pos, m, err) ==
  LET w1 == Log(w, Event("invoke", k, pos, err, 0, m.body))
  IN IF m.kind = "user" THEN Exec(w1, k, pos, Script(m.body, err))
     ELSE AddTask(w1, m.kind, k, pos, None, m)

\* a catch that goes on without the fault: run() for run(e)
CatchSwallows(w, k, e) == Run([w EXCEPT !.thrown = None], k, None)

\* catch (e) { return run(e) }
Catch(w, k, e) == Run([w EXCEPT !.thrown = None], k, e)

\* one iteration of the try block: the handler runs (once: w1 is the request
\* as the handler left it), a fault it throws is caught
Try(w, k, pos, m, err) ==
  CHOOSE w2 \in { IF w1.thrown # None THEN Catch(w1, k, w1.thrown) ELSE w1 :
                    w1 \in {Invoke(w, k, pos, m, err)} } : TRUE

\* a run that invokes the front handler whatever its kind
RunAnyKind(w, k, err) ==
  LET R == w.runners[k] IN
  IF R.middlewares = <<>> THEN Terminal(RemoveHeader(w, k), k, err)
  ELSE LET m   == Head(R.middlewares)
           pos == R.n - Len(R.middlewares) + 1
           w1  == [RemoveHeader(w, k) EXCEPT !.runners[k].middlewares = Tail(@)]
       IN Try(w1, k, pos, m, err)

\* a run that ends at a handler of the other kind instead of skipping it
RunStops(w, k, err) ==
  LET R == w.runners[k] IN
  IF R.middlewares = <<>> THEN Terminal(RemoveHeader(w, k), k, err)
  ELSE LET m   == Head(R.middlewares)
           pos == R.n - Len(R.middlewares) + 1
           w1  == [RemoveHeader(w, k) EXCEPT !.runners[k].middlewares = Tail(@)]
           isErrorHandling == m.arity >= 4
       IN IF Truthy(err) /\ isErrorHandling THEN Try(w1, k, pos, m, err)
          ELSE IF ~Truthy(err) /\ ~isErrorHandling THEN Try(w1, k, pos, m, None)
          ELSE w1

\* a run that does not return after the handler it invoked: the loop goes on
RunOn(w, k, err) ==
  LET R == w.runners[k] IN
  IF R.middlewares = <<>> THEN Terminal(RemoveHeader(w, k), k, err)
  ELSE LET m   == Head(R.middlewares)
           pos == R.n - Len(R.middlewares) + 1
           w1  == [RemoveHeader(w, k) EXCEPT !.runners[k].middlewares = Tail(@)]
           isErrorHandling == m.arity >= 4
       IN IF Truthy(err) /\ isErrorHandling THEN Run(Try(w1, k, pos, m, err), k, err)
          ELSE IF ~Truthy(err) /\ ~isErrorHandling THEN Run(Try(w1, k, pos, m, None), k, err)
          ELSE Run(w1, k, err)

\* const run = err => { while (middlewares.length) ... ; next(err) }
Run(w, k, err) ==
  LET R == w.runners[k] IN
  IF R.middlewares = <<>> THEN Terminal(RemoveHeader(w, k), k, err)
  ELSE LET m   == Head(R.middlewares)
           pos == R.n - Len(R.middlewares) + 1
           w1  == [RemoveHeader(w, k) EXCEPT !.runners[k].middlewares = Tail(@)]
           isErrorHandling == m.arity >= 4
       IN IF Truthy(err) /\ isErrorHandling THEN Try(w1, k, pos, m, err)
          ELSE IF ~Truthy(err) /\ ~isErrorHandling THEN Try(w1, k, pos, m, None)
          ELSE Run(w1, k, err)

\* runner(err): the first call of run, by middleware() or by a controller array
Start(w, k, err) ==
  Run(Log(w, Event("start", k, 0, err, Len(w.runners[k].middlewares), "")), k, err)

\* ------------------------------------------------------------- the actions
\* function OpenApiEnforcerMiddleware (definition, options)
Init ==
  /\ \E f \in BOOLEAN, q \in HeaderNames :
       options = [fallthrough |-> f, middleware |-> <<>>, mockHeader |-> "x-mock", mockQuery |-> q]
  /\ promise = [state |-> "pending", openapi |-> Unresolved, error |-> None]
  /\ registries = <<>>
  /\ rq = [r \in Reqs |-> Idle]

\* no request has reached the middleware yet: the application is being set up
Setup == \A r \in Reqs : rq[r].phase = "idle"

\* OpenApiEnforcerMiddleware.prototype.use
Use(middleware) ==
  /\ Setup
  /\ options' = [options EXCEPT !.middleware = Append(@, middleware)]
  /\ UNCHANGED <<promise, registries, rq>>

\* Enforcer(definition, { fullResult: true }) resolves with the openapi object
ResolveDefinition(openapi) ==
  /\ promise.state = "pending"
  /\ promise' = [promise EXCEPT !.state = "resolved", !.openapi = openapi]
  /\ UNCHANGED <<options, registries, rq>>

\* ... or with an exception: the promise rejects
RejectDefinition ==
  /\ promise.state = "pending"
  /\ promise' = [promise EXCEPT !.state = "rejected", !.error = DefinitionError]
  /\ UNCHANGED <<options, registries, rq>>

\* the function middleware() returns, called by the host with a request
Middleware(r, req) ==
  /\ rq[r].phase = "idle"
  /\ rq' = [rq EXCEPT ![r] = [Idle EXCEPT !.phase = "arrived", !.req = req]]
  /\ UNCHANGED <<options, promise, registries>>

\* .catch(next) of middleware()
CatchNext(w) == IF w.thrown # None THEN MwNext([w EXCEPT !.thrown = None], w.thrown) ELSE w

\* the 404 branch with the fallthrough test inverted
NotFoundInverted(w) == IF options.fallthrough THEN SendStatus(w, "404") ELSE MwNext(w, None)

\* the 404 branch of middleware()
NotFound(w) == IF options.fallthrough THEN MwNext(w, None) ELSE SendStatus(w, "404")

\* a reaction that starts the runner without the client error
RespondNoError(w, openapi, store) ==
  LET result == OpenapiRequest(openapi, w.req)
      clientError == ~result.ok
  IN IF clientError /\ result.clientError.statusCode = "404"
       THEN NotFound(w)
       ELSE Start([w EXCEPT !.send = "override", !.openapi = TRUE,
                            !.operation = PathMatch(openapi, w.req.path),
                            !.runners = <<middlewareRunner(store, TRUE, HostNext)>>],
                  1, None)

\* the reaction of middleware() to the resolved definition, store being
\* options.middleware
Respond(w, openapi, store) ==
  LET result == OpenapiRequest(openapi, w.req)
      clientError == ~result.ok
  IN IF clientError /\ result.clientError.statusCode = "404"
       THEN NotFound(w)
       ELSE LET w1 == [w EXCEPT !.send = "override", !.openapi = TRUE,
                                !.operation = PathMatch(openapi, w.req.path),
                                !.runners = <<middlewareRunner(store, TRUE, HostNext)>>]
            IN IF clientError THEN Start(w1, 1, errorFromException(result.clientError))
                              ELSE Start(w1, 1, None)

\* a reaction whose runner works on options.middleware itself, not on a copy
DispatchConsumes(r) ==
  /\ rq[r].phase = "arrived"
  /\ promise.state = "resolved"
  /\ rq' = [rq EXCEPT ![r] =
              [CatchNext(Respond(rq[r], promise.openapi, options.middleware))
                 EXCEPT !.phase = "dispatched"]]
  /\ options' = [options EXCEPT !.middleware =
                   IF rq'[r].runners = <<>> THEN @
                   ELSE SubSeq(@, Len(@) - Len(rq'[r].runners[1].middlewares) + 1, Len(@))]
  /\ UNCHANGED <<promise, registries>>

\* the reaction of middleware() to the definition promise, for a request
Dispatch(r) ==
  /\ rq[r].phase = "arrived"
  /\ promise.state = "resolved"
  /\ rq' = [rq EXCEPT ![r] =
              [CatchNext(Respond(rq[r], promise.openapi, options.middleware))
                 EXCEPT !.phase = "dispatched"]]
  /\ UNCHANGED <<options, promise, registries>>

\* the definition was rejected: .catch(next)
DispatchRejected(r) ==
  /\ rq[r].phase = "arrived"
  /\ promise.state = "rejected"
  /\ rq' = [rq EXCEPT ![r] = [MwNext(rq[r], promise.error) EXCEPT !.phase = "dispatched"]]
  /\ UNCHANGED <<options, promise, registries>>

RemoveAt(s, i) == SubSeq(s, 1, i - 1) \o SubSeq(s, i + 1, Len(s))

\* a deferred call that reaches the runner without its argument
AdvanceNoError(r, i) ==
  /\ i \in 1 .. Len(rq[r].tasks)
  /\ rq[r].tasks[i].type = "advance"
  /\ LET t == rq[r].tasks[i]
         w == [rq[r] EXCEPT !.tasks = RemoveAt(@, i)]
     IN rq' = [rq EXCEPT ![r] = CallNext(w, t.k, t.pos, None)]
  /\ UNCHANGED <<options, promise, registries>>

\* a handler's deferred call of its advance callback
Advance(r, i) ==
  /\ i \in 1 .. Len(rq[r].tasks)
  /\ rq[r].tasks[i].type = "advance"
  /\ LET t == rq[r].tasks[i]
         w == [rq[r] EXCEPT !.tasks = RemoveAt(@, i)]
     IN rq' = [rq EXCEPT ![r] = CallNext(w, t.k, t.pos, t.err)]
  /\ UNCHANGED <<options, promise, registries>>

\* ---------------------------------------------------- the controller map
\* a value bound in a controllers object: a function (with its declared
\* parameter count and its body), an array of such values, or another value
Fn(arity, body) == [t |-> "function", arity |-> arity, body |-> body, items |-> <<>>]

Arr(items) == [t |-> "array", arity |-> 0, body |-> "", items |-> items]

NotAFunction == [t |-> "other", arity |-> 0, body |-> "", items |-> <<>>]

NoHandler == [t |-> "none", arity |-> 0, body |-> "", items |-> <<>>]

\* a bound value that is falsy: null, undefined, 0, ''
Falsy == [t |-> "falsy", arity |-> 0, body |-> "", items |-> <<>>]

\* a controllers object: controller name -> operation name -> value
EmptyObject == <<>>

PeopleController(value) == "people" :> ("list" :> value)

\* controllersTarget by typeof: a non-null object, a string naming a directory,
\* a function (`returns`: whether it returns a non-null object, `object`: the
\* object returned), or a value of another type
ObjectTarget(object) == [type |-> "object", path |-> "", object |-> object, returns |-> FALSE]

StringTarget(path) == [type |-> "string", path |-> path, object |-> EmptyObject, returns |-> FALSE]

FunctionTarget(returns, object) ==
  [type |-> "function", path |-> "", object |-> object, returns |-> returns]

OtherTarget == [type |-> "other", path |-> "", object |-> EmptyObject, returns |-> FALSE]

\* the controller modules on disk, by directory and controller name: what
\* require(path.resolve(controllersTarget, controllerName)) gives, a name
\* without a file being MODULE_NOT_FOUND
Disk ==
  "./controllers" :> ("people" :> ("list" :> Fn(3, "send")) @@ "pets" :> ("list" :> Fn(3, "send")))
  @@ "./partial" :> ("people" :> ("list" :> Falsy) @@ "pets" :> ("get" :> Fn(3, "send")))

\* the directory branch of the handler lookup of mapControllers
LoadFromDirectory(controllersTarget, controllerName, operationName) ==
  IF controllerName \notin DOMAIN Disk[controllersTarget.path]
    THEN [handler |-> NoHandler,
          messages |-> <<Sub(controllerName, "Controller file not found", "", 0)>>]
    ELSE LET controller == Disk[controllersTarget.path][controllerName]
         IN IF operationName \notin DOMAIN controller
              THEN [handler |-> NoHandler,
                    messages |-> <<Sub(controllerName, "Operation not found: ", operationName, 0)>>]
              ELSE [handler |-> controller[operationName], messages |-> <<>>]

\* the object branch of the handler lookup of mapControllers
LoadFromObject(controllersTarget, controllerName, operationName) ==
  IF controllerName \notin DOMAIN controllersTarget.object
    THEN [handler |-> NoHandler, messages |-> <<Sub(controllerName, "Controller not found", "", 0)>>]
    ELSE IF \/ operationName \notin DOMAIN controllersTarget.object[controllerName]
            \/ controllersTarget.object[controllerName][operationName].t = "falsy"
      THEN [handler |-> NoHandler,
            messages |-> <<Sub(controllerName, "Controller operation not found: ", operationName, 0)>>]
      ELSE [handler |-> controllersTarget.object[controllerName][operationName], messages |-> <<>>]

IsFunction(item) == item.t = "function"

RECURSIVE NotFunctions(_, _, _)
\* grandChild.at(i).message('Not a function') for the items from index i on
NotFunctions(controllerName, items, i) ==
  IF i > Len(items) THEN <<>>
  ELSE (IF IsFunction(items[i]) THEN <<>> ELSE <<Sub(controllerName, "Not a function", "", i)>>)
       \o NotFunctions(controllerName, items, i + 1)

\* "if a handler exists then validate and normalize it": what map.set stores
\* and the messages recorded
Normalize(controllerName, handler) ==
  IF handler.t = "array"
    THEN [callable |-> [t |-> "chain", arity |-> 3, body |-> "",
                        items |-> SelectSeq(handler.items, IsFunction)],
          messages |-> NotFunctions(controllerName, handler.items, 1)]
    ELSE IF handler.t = "function"
      THEN [callable |-> handler, messages |-> <<>>]
      ELSE [callable |-> NoHandler,
            messages |-> <<Sub(controllerName, "Expected a function or an array of functions. Received: ", "", 0)>>]

\* the body of pathItem.methods.forEach for the operation of path item i
MapOperation(openapi, controllersTarget, i, acc) ==
  LET pathItem == openapi.paths[i]
      operation == pathItem.operation
      controllerName ==
        IF operation.xController # "" THEN operation.xController
        ELSE IF pathItem.xController # "" THEN pathItem.xController
        ELSE openapi.xController
      operationName ==
        IF operation.xOperation # "" THEN operation.xOperation ELSE operation.operationId
  IN IF controllerName # "" /\ operationName # ""
       THEN LET found == IF controllersTarget.type = "string"
                           THEN LoadFromDirectory(controllersTarget, controllerName, operationName)
                           ELSE LoadFromObject(controllersTarget, controllerName, operationName)
                acc1 == [acc EXCEPT !.messages = @ \o found.messages]
            IN IF found.handler.t \notin {"none", "falsy"}
                 THEN LET n == Normalize(controllerName, found.handler)
                      IN [map |-> [acc1.map EXCEPT ![i] = n.callable],
                          messages |-> acc1.messages \o n.messages]
                 ELSE acc1
       ELSE acc

RECURSIVE MapPathsFailFast(_, _, _, _)
\* a scan that stops at the first operation it cannot bind
MapPathsFailFast(openapi, controllersTarget, i, acc) ==
  IF i > Len(openapi.paths) \/ acc.messages # <<>> THEN acc
  ELSE MapPathsFailFast(openapi, controllersTarget, i + 1,
                        MapOperation(openapi, controllersTarget, i, acc))

RECURSIVE MapPaths(_, _, _, _)
\* Object.keys(openapi.paths).forEach
MapPaths(openapi, controllersTarget, i, acc) ==
  IF i > Len(openapi.paths) THEN acc
  ELSE MapPaths(openapi, controllersTarget, i + 1, MapOperation(openapi, controllersTarget, i, acc))

\* the Error thrown by mapControllers for an exception with this header
Thrown(header, messages) ==
  [ok |-> FALSE, map |-> <<>>, error |-> [name |-> header, statusCode |-> "", messages |-> messages]]

\* mapControllers (openapi, isMock, controllersTarget, dependencyInjection, options)
mapControllers(openapi, isMock, controllersTarget) ==
  LET \* the target after "if the controllers target is a function then execute it"
      target == IF controllersTarget.type = "function"
                  THEN ObjectTarget(controllersTarget.object) ELSE controllersTarget
      acc == MapPaths(openapi, target, 1,
                      [map |-> [i \in 1 .. Len(openapi.paths) |-> NoHandler], messages |-> <<>>])
  IN IF controllersTarget.type \notin {"function", "string", "object"}
       THEN Thrown(IF isMock THEN "Unable to load mock controllers" ELSE "Unable to load controllers",
                   <<Sub("", "Controllers target must be a string, a non-null object, or a function that returns a non-null object", "", 0)>>)
     ELSE IF controllersTarget.type = "function" /\ ~controllersTarget.returns
       THEN Thrown(IF isMock THEN "Unable to load mock controllers" ELSE "Unable to load controllers",
                   <<Sub("", "Controllers target function must return a non-null object", "", 0)>>)
     ELSE IF acc.messages # <<>>
       THEN Thrown(IF target.type = "string"
                     THEN IF isMock THEN "Unable to load one or more mock directory controllers within"
                                    ELSE "Unable to load one or more directory controllers within"
                     ELSE IF isMock THEN "Unable to load one or more mock controllers"
                                    ELSE "Unable to load one or more controllers",
                   acc.messages)
       ELSE [ok |-> TRUE, map |-> acc.map, error |-> None]

\* ------------------------------------------------ controllers() and mocks()
Registry(isMock, controllersTarget) ==
  [isMock |-> isMock, target |-> controllersTarget, state |-> "pending",
   map |-> <<>>, error |-> None, loads |-> 0]

\* OpenApiEnforcerMiddleware.prototype.controllers
Controllers(controllersTarget) ==
  /\ Setup
  /\ registries' = Append(registries, Registry(FALSE, controllersTarget))
  /\ options' = [options EXCEPT !.middleware =
                   Append(@, Registered("controllers", Len(registries) + 1, FALSE))]
  /\ UNCHANGED <<promise, rq>>

\* OpenApiEnforcerMiddleware.prototype.mocks
Mocks(controllersTarget, automatic) ==
  /\ Setup
  /\ registries' = Append(registries, Registry(TRUE, controllersTarget))
  /\ options' = [options EXCEPT !.middleware =
                   Append(@, Registered("mocks", Len(registries) + 1, automatic))]
  /\ UNCHANGED <<promise, rq>>

\* this.promise.then(openapi => mapControllers(...)): the registry's promise
Settle(registry) ==
  IF promise.state = "rejected"
    THEN [registry EXCEPT !.state = "rejected", !.error = promise.error]
    ELSE LET result == mapControllers(promise.openapi, registry.isMock, registry.target)
         IN IF result.ok
              THEN [registry EXCEPT !.state = "resolved", !.map = result.map, !.loads = @ + 1]
              ELSE [registry EXCEPT !.state = "rejected", !.error = result.error,
                                    !.loads = @ + 1]

\* a build that runs again for a registry that is settled already
BuildRegistryAgain(i) ==
  /\ i \in 1 .. Len(registries)
  /\ promise.state # "pending"
  /\ registries' = [registries EXCEPT ![i] = Settle(registries[i])]
  /\ UNCHANGED <<options, promise, rq>>

\* the reaction of the registry's promise: it runs once, when the definition
\* has settled
BuildRegistry(i) ==
  /\ i \in 1 .. Len(registries)
  /\ registries[i].state = "pending"
  /\ promise.state # "pending"
  /\ registries' = [registries EXCEPT ![i] = Settle(registries[i])]
  /\ UNCHANGED <<options, promise, rq>>

\* the item functions of a controller array as a runner's store
ArrayStore(items) == [i \in 1 .. Len(items) |-> User(items[i].arity, items[i].body)]

\* controller(req, res, next), next being the run of runner k: a function is
\* called, an array was wrapped into a function starting a runner of its own
CallController(w, k, pos, controller, by) ==
  LET w1 == Log(w, Event(by, k, pos, None, 0, w.marker))
  IN IF controller.t = "function" THEN Exec(w1, k, pos, Script(controller.body, None))
     ELSE Start([w1 EXCEPT !.runners =
                   Append(@, middlewareRunner(ArrayStore(controller.items), FALSE, RunOf(k, pos)))],
                Len(w1.runners) + 1, None)

\* .catch(next) of a registered handler, and catch (err) { next(err) } of mocks()
CatchRun(w, k, pos) ==
  IF w.thrown # None THEN CallNext([w EXCEPT !.thrown = None], k, pos, w.thrown) ELSE w

\* the reaction of the handler of controllers() to its registry
ControllersThen(w, k, pos, registry) ==
  IF registry.state = "rejected" THEN CallNext(w, k, pos, registry.error)
  ELSE LET controller == registry.map[w.operation]
       IN IF controller.t # "none"
            THEN CatchRun(CallController([w EXCEPT !.marker = "controller"], k, pos,
                                         controller, "controller"), k, pos)
            ELSE CallNext(w, k, pos, None)

ControllersStep(r, i) ==
  /\ i \in 1 .. Len(rq[r].tasks)
  /\ rq[r].tasks[i].type = "controllers"
  /\ registries[rq[r].tasks[i].h.reg].state # "pending"
  /\ LET t == rq[r].tasks[i]
         w == [rq[r] EXCEPT !.tasks = RemoveAt(@, i)]
     IN rq' = [rq EXCEPT ![r] = ControllersThen(w, t.k, t.pos, registries[t.h.reg])]
  /\ UNCHANGED <<options, promise, registries>>

\* ------------------------------------------------------------------- mocks
\* responseCodes[0] || ''
FirstCode(responseCodes) == IF Len(responseCodes) > 0 THEN responseCodes[1] ELSE ""

\* value || responseCodes[0] || ''
ValueOrFirst(value, responseCodes) ==
  IF value # Absent /\ value # "" THEN value ELSE FirstCode(responseCodes)

\* "check to see if using manual mock or automatic"
MockDecision(req, operation, automatic) ==
  LET responseCodes == ResponseCodes(operation)
      mockHeaderKey == options.mockHeader
      mockQueryKey == options.mockQuery
  IN IF req.headers[mockHeaderKey] # Absent
       THEN [source |-> "header", specified |-> req.headers[mockHeaderKey] # "",
             statusCode |-> ValueOrFirst(req.headers[mockHeaderKey], responseCodes),
             hasResponse |-> FALSE]
     ELSE IF req.headers[mockQueryKey] # Absent
       THEN [source |-> "query", specified |-> req.headers[mockQueryKey] # "",
             statusCode |-> ValueOrFirst(req.headers[mockHeaderKey], responseCodes),
             hasResponse |-> FALSE]
     ELSE IF automatic
       THEN [source |-> "automatic", specified |-> FALSE,
             statusCode |-> FirstCode(responseCodes), hasResponse |-> FALSE]
     ELSE NoMock

\* a JavaScript value with its type, for ===
Number(digits) == [type |-> "number", val |-> digits]

String(chars) == [type |-> "string", val |-> chars]

StrictEquals(a, b) == a.type = b.type /\ a.val = b.val

Digits == {"0", "1", "2", "3", "4", "5", "6", "7", "8", "9"}

RECURSIVE LeadingDigits(_)
\* /^(\d+)/.exec(chars)[0]
LeadingDigits(chars) ==
  IF chars # <<>> /\ Head(chars) \in Digits THEN <<Head(chars)>> \o LeadingDigits(Tail(chars))
  ELSE <<>>

\* _openapi.swagger ? 2 : /^(\d+)/.exec(_openapi.openapi)[0]
Version(openapi) ==
  IF openapi.swagger THEN Number(<<"2">>) ELSE String(LeadingDigits(openapi.openapi))

\* unableToMock (exception, next), next being the run of runner k
unableToMock(w, k, pos, exception) ==
  CallNext(w, k, pos,
           errorFromException([Message(exception, "Unable to generate mock response")
                                 EXCEPT !.statusCode = "501"]))

\* const [ value, err, warning ] = schema.random() and what follows it
Random(w, k, pos, schema, mock, exception) ==
  LET w1 == Log(w, Event("random", k, pos, None, 0, schema))
  IN IF schema = "error" THEN unableToMock(w1, k, pos, Message(exception, "error"))
     ELSE IF schema = "warning" THEN unableToMock(w1, k, pos, Message(exception, "warning"))
     ELSE ResSend([w1 EXCEPT !.statusCode = mock.statusCode], "random")

\* the generation branches of mocks(): version 2, version 3, neither
Generate(w, k, pos, version, response, mock, exception) ==
  IF StrictEquals(version, Number(<<"2">>)) /\ response.schema # "none"
    THEN Random(w, k, pos, response.schema, mock, exception)
  ELSE IF StrictEquals(version, Number(<<"3">>)) /\ response.content # "none"
    THEN IF response.content # "noschema"
           THEN Random(w, k, pos, response.content, mock, exception)
           ELSE unableToMock(w, k, pos, Message(exception, "No schema associated with response"))
  ELSE unableToMock(w, k, pos, exception)

\* a branch choice that generates although a controller is provided
MockBranchGenerates(controller, mock) ==
  IF ~mock.hasResponse THEN "unlisted" ELSE "generate"

\* which branch of mocks() serves a decided mock: the controller if one is
\* provided, else the failure for an unlisted status code, else generation
MockBranch(controller, mock) ==
  IF controller.t # "none" THEN "controller"
  ELSE IF ~mock.hasResponse THEN "unlisted"
  ELSE "generate"

\* the reaction of the handler of mocks() to its registry
MocksThen(w, k, pos, registry, automatic, openapi) ==
  IF registry.state = "rejected" THEN CallNext(w, k, pos, registry.error)
  ELSE LET operation == openapi.paths[w.operation].operation
           controller == registry.map[w.operation]
           decision == MockDecision(w.req, operation, automatic)
           w0 == Log(w, [Event("decision", k, pos, None, 0, decision.source)
                           EXCEPT !.code = decision.statusCode])
       IN IF decision.source = "none" THEN CallNext(w0, k, pos, None)
          ELSE LET version == Version(openapi)
                   exception == [Exception("Unable to generate mock response")
                                   EXCEPT !.statusCode = "400"]
                   mock == [decision EXCEPT !.hasResponse =
                              HasResponse(operation, decision.statusCode)]
                   w1 == [w0 EXCEPT !.mock = mock]
                   branch == MockBranch(controller, mock)
               IN IF branch = "controller"
                    THEN CatchRun(CallController([w1 EXCEPT !.marker = "mock"], k, pos,
                                                 controller, "mockController"), k, pos)
                  ELSE IF branch = "unlisted"
                    THEN CallNext(w1, k, pos,
                                  errorFromException(
                                    Message(exception, "No response is defined for status code")))
                  ELSE Generate(w1, k, pos, version, ResponseOf(operation, mock.statusCode),
                                mock, exception)

MocksStep(r, i) ==
  /\ i \in 1 .. Len(rq[r].tasks)
  /\ rq[r].tasks[i].type = "mocks"
  /\ registries[rq[r].tasks[i].h.reg].state # "pending"
  /\ LET t == rq[r].tasks[i]
         w == [rq[r] EXCEPT !.tasks = RemoveAt(@, i)]
     IN rq' = [rq EXCEPT ![r] =
                 MocksThen(w, t.k, t.pos, registries[t.h.reg], t.h.automatic, promise.openapi)]
  /\ UNCHANGED <<options, promise, registries>>

\* ------------------------------------------------ full middleware behaviours
Palette == { User(3, "sendBad"), User(3, "sendTwice"), User(4, "next") }

Targets == { ObjectTarget(EmptyObject), ObjectTarget(PeopleController(Fn(3, "send"))) }

MockTargets == { <<ObjectTarget(EmptyObject), FALSE>>, <<ObjectTarget(EmptyObject), TRUE>>,
                 <<ObjectTarget(PeopleController(Fn(3, "send"))), FALSE>> }

Fields(xMock, mock) == [n \in HeaderNames |-> IF n = "x-mock" THEN xMock ELSE mock]

Requests ==
  { Request("/dne", TRUE, NoFields, NoFields),
    Request("/people", FALSE, NoFields, NoFields) }
  \cup { Request("/people", TRUE, Fields(h, Absent), NoFields) : h \in {Absent, "", "404", "500", "503"} }
  \cup { Request("/people", TRUE, Fields(Absent, ""), NoFields) }
  \cup { Request("/people", TRUE, NoFields, Fields(q, Absent)) : q \in {"", "404"} }
  \cup { Request("/people", TRUE, Fields("", Absent), Fields("404", Absent)) }

Next ==
  \/ \E h \in Palette : Len(options.middleware) < MaxUse /\ Use(h)
  \/ \E t \in Targets : Len(options.middleware) < MaxUse /\ Controllers(t)
  \/ \E t \in MockTargets : Len(options.middleware) < MaxUse /\ Mocks(t[1], t[2])
  \/ \E c \in Catalogs : ResolveDefinition(c)
  \/ RejectDefinition
  \/ \E i \in 1 .. MaxUse + 1 : BuildRegistry(i)
  \/ \E r \in One, q \in Requests : Middleware(r, q)
  \/ \E r \in Reqs : Dispatch(r)
  \/ \E r \in Reqs : DispatchRejected(r)
  \/ \E r \in Reqs, i \in 1 .. MaxUse + 1 : ControllersStep(r, i)
  \/ \E r \in Reqs, i \in 1 .. MaxUse + 1 : MocksStep(r, i)

Spec == Init /\ [][Next]_vars

\* ------------------------------------------------- runner-centred behaviours
ChainPalette ==
  { User(3, "next"), User(3, "nextErr"), User(3, "throw"), User(3, "later"),
    User(4, "next"), User(4, "pass") }

ChainRequests ==
  { Request("/dne", TRUE, NoFields, NoFields),
    Request("/people", FALSE, NoFields, NoFields),
    Request("/people", TRUE, NoFields, NoFields) }

ChainCatalogs == { OpenApi(TRUE, <<>>, "", People("", V2Responses)) }

NextChain ==
  \/ \E h \in ChainPalette : Len(options.middleware) < MaxChain /\ Use(h)
  \/ \E c \in ChainCatalogs : ResolveDefinition(c)
  \/ RejectDefinition
  \/ \E r \in One, q \in ChainRequests : Middleware(r, q)
  \/ \E r \in Reqs : Dispatch(r)
  \/ \E r \in Reqs : DispatchRejected(r)
  \/ \E r \in Reqs, i \in 1 .. MaxChain + 1 : Advance(r, i)

\* the default option names, one contract
InitChain == Init /\ options.mockQuery = "x-mock"

SpecChain == InitChain /\ [][NextChain]_vars

\* ----------------------------------------------- registry-centred behaviours
Annotations == {"", "people", "cars"}

\* definitions with three operations, each with or without a controller name,
\* and one that names the controller at the root, one at the path item
MapCatalogs ==
  { OpenApi(TRUE, <<>>, "",
            <<PathItem("/people", "", Operation(a, "list", V2Responses)),
              PathItem("/pets", "", Operation(b, "list", V2Responses)),
              PathItem("/cars", "", Operation(c, "list", V2Responses))>>) :
      a \in Annotations, b \in Annotations, c \in Annotations }
  \cup { OpenApi(TRUE, <<>>, "people",
                 <<PathItem("/people", "", Operation("", "list", V2Responses)),
                   PathItem("/pets", "pets", Operation("", "list", V2Responses)),
                   PathItem("/cars", "", Operation("", "", V2Responses))>>) }

MapTargets ==
  { ObjectTarget(EmptyObject),
    ObjectTarget(PeopleController(Fn(3, "send"))),
    ObjectTarget(PeopleController(Arr(<<Fn(3, "next"), NotAFunction, Fn(3, "send"), NotAFunction>>))),
    ObjectTarget(PeopleController(NotAFunction)),
    ObjectTarget(PeopleController(Falsy)),
    StringTarget("./controllers"),
    StringTarget("./partial"),
    FunctionTarget(TRUE, PeopleController(Fn(3, "send"))),
    FunctionTarget(FALSE, EmptyObject),
    OtherTarget }

MockMapTargets == { ObjectTarget(EmptyObject), StringTarget("./partial"), OtherTarget }

NextMap ==
  \/ \E t \in MapTargets : Len(registries) < MaxMap /\ Controllers(t)
  \/ \E t \in MockMapTargets : Len(registries) < MaxMap /\ Mocks(t, FALSE)
  \/ \E c \in MapCatalogs : ResolveDefinition(c)
  \/ RejectDefinition
  \/ \E i \in 1 .. MaxMap : BuildRegistry(i)

InitMap == Init /\ options.fallthrough /\ options.mockQuery = "x-mock"

SpecMap == InitMap /\ [][NextMap]_vars

\* ------------------------------------ handlers that forward more than once
ForwardPalette ==
  { User(3, "next"), User(3, "later"), User(3, "nextTwice"), User(3, "throw"),
    User(4, "next"), User(3, "nextLater"), User(3, "laterThrow") }

NextForward ==
  \/ \E h \in ForwardPalette : Len(options.middleware) < MaxForward /\ Use(h)
  \/ \E c \in ChainCatalogs : ResolveDefinition(c)
  \/ RejectDefinition
  \/ \E r \in One, q \in ChainRequests : Middleware(r, q)
  \/ \E r \in Reqs : Dispatch(r)
  \/ \E r \in Reqs : DispatchRejected(r)
  \/ \E r \in Reqs, i \in 1 .. 2 * MaxForward : Advance(r, i)

SpecForward == InitChain /\ [][NextForward]_vars

\* ------------------------- handlers that advance at once and handlers that
\* advance later
AsyncPalette ==
  { User(3, "next"), User(3, "later"), User(3, "nextErr"), User(3, "laterErr"),
    User(4, "next"), User(4, "later") }

NextAsync ==
  \/ \E h \in AsyncPalette : Len(options.middleware) < MaxAsync /\ Use(h)
  \/ \E c \in ChainCatalogs : ResolveDefinition(c)
  \/ RejectDefinition
  \/ \E r \in One, q \in ChainRequests : Middleware(r, q)
  \/ \E r \in Reqs : Dispatch(r)
  \/ \E r \in Reqs : DispatchRejected(r)
  \/ \E r \in Reqs, i \in 1 .. MaxAsync : Advance(r, i)

SpecAsync == InitChain /\ [][NextAsync]_vars

\* ------------------------------------------- runs followed to their end
\* handlers that advance once (at once or later), throw, or write the response
LivePalette ==
  { User(3, "later"), User(3, "throw"), User(4, "next"), User(3, "send"), User(3, "sendBad") }

\* requests that match the operation: a runner is started for them
LiveRequests ==
  { Request("/people", TRUE, NoFields, NoFields), Request("/people", FALSE, NoFields, NoFields) }

NextLive ==
  \/ \E h \in LivePalette : Len(options.middleware) < MaxLive /\ Use(h)
  \/ \E c \in ChainCatalogs : ResolveDefinition(c)
  \/ RejectDefinition
  \/ \E r \in One, q \in LiveRequests : Middleware(r, q)
  \/ \E r \in Reqs : Dispatch(r)
  \/ \E r \in Reqs : DispatchRejected(r)
  \/ \E r \in Reqs, i \in 1 .. MaxLive : Advance(r, i)

\* a handler that deferred its call of the advance callback makes the call:
\* the timer or callback it is waiting for fires
SpecLive ==
  /\ InitMap /\ [][NextLive]_vars
  /\ WF_vars(\E r \in Reqs, i \in 1 .. MaxLive : Advance(r, i))

\* ------------------------------------------------- two requests in flight
ConcPalette == { User(3, "later"), User(3, "nextErr"), User(4, "next") }

ConcTargets ==
  { ObjectTarget(EmptyObject), ObjectTarget(PeopleController(Fn(3, "send"))),
    StringTarget("./controllers") }

ConcCatalogs ==
  { OpenApi(TRUE, <<>>, "", People("people", V2Responses)),
    OpenApi(TRUE, <<>>, "", People("", V2Responses)) }

ConcRequests ==
  { Request("/people", TRUE, NoFields, NoFields),
    Request("/people", FALSE, NoFields, NoFields),
    Request("/people", TRUE, Fields("", Absent), NoFields) }

NextConc ==
  \/ \E h \in ConcPalette : Len(options.middleware) < MaxConc /\ Use(h)
  \/ \E t \in ConcTargets : Len(options.middleware) < MaxConc /\ Controllers(t)
  \/ Len(options.middleware) < MaxConc /\ Mocks(ObjectTarget(EmptyObject), TRUE)
  \/ \E c \in ConcCatalogs : ResolveDefinition(c)
  \/ RejectDefinition
  \/ \E i \in 1 .. MaxConc + 1 : BuildRegistry(i)
  \/ \E r \in Reqs, q \in ConcRequests : Middleware(r, q)
  \/ \E r \in Reqs : Dispatch(r)
  \/ \E r \in Reqs : DispatchRejected(r)
  \/ \E r \in Reqs, i \in 1 .. MaxConc + 1 : Advance(r, i)
  \/ \E r \in Reqs, i \in 1 .. MaxConc + 1 : ControllersStep(r, i)
  \/ \E r \in Reqs, i \in 1 .. MaxConc + 1 : MocksStep(r, i)

SpecConc == InitMap /\ [][NextConc]_vars

\* ---------------------------------------------------------------- history
Store == options.middleware

IsErrorHandling(m) == m.arity >= 4

\* the handler is of the kind run invokes while err is the propagated error
Matches(m, err) == IsErrorHandling(m) = Truthy(err)

\* a call of run: the runner's first call, an advance call, a caught fault
IsCall(e) == e.t \in {"start", "advance", "throw"}

\* the positions still queued when `rem` handlers were left of n
Remaining(n, rem) == (n - rem + 1) .. n

Events(w, t) == { p \in 1 .. Len(w.log) : w.log[p].t = t }

\* the positions of the top-level runner's handlers in the order they were invoked
RECURSIVE FlowOf(_)
FlowOf(log) ==
  IF log = <<>> THEN <<>>
  ELSE IF Head(log).t = "invoke" /\ Head(log).k = 1 THEN <<Head(log).pos>> \o FlowOf(Tail(log))
  ELSE FlowOf(Tail(log))

\* the arguments of the calls of the host's next
RECURSIVE HostCalls(_)
HostCalls(log) ==
  IF log = <<>> THEN <<>>
  ELSE IF Head(log).t = "host" THEN <<Head(log).err>> \o HostCalls(Tail(log))
  ELSE HostCalls(Tail(log))

\* the request has been through middleware() and nothing of it is pending
Finished(w) == w.phase = "dispatched" /\ w.tasks = <<>>

Unmatched(w) == promise.state = "resolved" /\ PathMatch(promise.openapi, w.req.path) = 0

Matched(w) == promise.state = "resolved" /\ PathMatch(promise.openapi, w.req.path) # 0

\* ------------------------------------------- controller-centred behaviours
CtlPalette == { User(3, "next"), User(4, "next") }

\* the functions a controller array is made of
CtlItems == { Fn(3, "next"), Fn(3, "nextErr"), Fn(3, "throw"), Fn(3, "later"), Fn(4, "next") }

\* the arrays of one to MaxArray functions
CtlArrays == UNION { { Arr(items) : items \in [1 .. n -> CtlItems] } : n \in 1 .. MaxArray }

CtlTargets ==
  { ObjectTarget(PeopleController(v)) : v \in {Fn(3, "send"), Fn(3, "sendBad")} \cup CtlArrays }

CtlMockTargets ==
  { ObjectTarget(PeopleController(v)) :
      v \in {Fn(3, "sendBad"), Arr(<<Fn(3, "nextErr"), Fn(4, "next")>>)} }

CtlCatalogs == { OpenApi(TRUE, <<>>, "", People("people", V2Responses)) }

CtlRequests ==
  { Request("/people", TRUE, NoFields, NoFields),
    Request("/people", TRUE, Fields("", Absent), NoFields) }

NextCtl ==
  \/ \E h \in CtlPalette : Len(options.middleware) < MaxCtl /\ Use(h)
  \/ \E t \in CtlTargets :
       Len(options.middleware) < MaxCtl /\ registries = <<>> /\ Controllers(t)
  \/ \E t \in CtlMockTargets :
       Len(options.middleware) < MaxCtl /\ registries = <<>> /\ Mocks(t, FALSE)
  \/ \E c \in CtlCatalogs : ResolveDefinition(c)
  \/ RejectDefinition
  \/ \E i \in 1 .. MaxCtl : BuildRegistry(i)
  \/ \E r \in Reqs, q \in CtlRequests :
       (\A o \in Reqs : o < r => Finished(rq[o])) /\ Middleware(r, q)
  \/ \E r \in Reqs : Dispatch(r)
  \/ \E r \in Reqs : DispatchRejected(r)
  \/ \E r \in Reqs, i \in 1 .. MaxCtl + MaxArray : Advance(r, i)
  \/ \E r \in Reqs, i \in 1 .. MaxCtl + MaxArray : ControllersStep(r, i)
  \/ \E r \in Reqs, i \in 1 .. MaxCtl + MaxArray : MocksStep(r, i)

SpecCtl == InitMap /\ [][NextCtl]_vars

C2_Routing ==
  \A r \in Reqs :
    LET w == rq[r]
        n == Len(Store)
    IN /\ \A p \in 1 .. Len(w.log) :
            LET e == w.log[p] IN
            /\ (e.t = "invoke" /\ e.k = 1) =>
                 /\ p > 1 /\ IsCall(w.log[p - 1]) /\ w.log[p - 1].k = 1
                 /\ LET c == w.log[p - 1] IN
                      /\ e.pos \in Remaining(n, c.rem)
                      /\ Matches(Store[e.pos], c.err)
                      /\ \A j \in Remaining(n, c.rem) : j < e.pos => ~Matches(Store[j], c.err)
                      /\ e.err = c.err
            /\ (IsCall(e) /\ e.k = 1) =>
                 /\ p < Len(w.log)
                 /\ IF \E j \in Remaining(n, e.rem) : Matches(Store[j], e.err)
                      THEN w.log[p + 1].t = "invoke" /\ w.log[p + 1].k = 1
                      ELSE w.log[p + 1].t = "terminal" /\ w.log[p + 1].err = e.err
       /\ (Finished(w) /\ Matched(w) /\ w.req.valid) =>
            /\ Store = <<User(3, "nextErr"), User(3, "next"), User(4, "next"), User(3, "next")>>
                 => FlowOf(w.log) = <<1, 3, 4>>
            /\ Store = <<User(3, "next"), User(4, "next"), User(3, "next")>>
                 => FlowOf(w.log) = <<1, 3>>

C2_Witness ==
  \E r \in Reqs :
    /\ Finished(rq[r])
    /\ Store = <<User(3, "nextErr"), User(3, "next"), User(4, "next"), User(3, "next")>>
    /\ FlowOf(rq[r].log) = <<1, 3, 4>>
    /\ HostCalls(rq[r].log) = <<None>>

\* the registered handlers with every `throw e` replaced by `next(e)`
ThrowToNext(store) ==
  [i \in 1 .. Len(store) |->
     IF store[i].body = "throw" THEN [store[i] EXCEPT !.body = "nextErr"] ELSE store[i]]

\* a history with its throwing handlers read as handlers that call next(e)
AsAdvance(log) ==
  [p \in 1 .. Len(log) |->
     IF log[p].t = "throw" THEN [log[p] EXCEPT !.t = "advance"]
     ELSE IF log[p].t = "invoke" /\ log[p].body = "throw" THEN [log[p] EXCEPT !.body = "nextErr"]
     ELSE log[p]]
RECURSIVE Complete(_)
\* the request with its deferred advance calls made, the oldest first
Complete(w) ==
  IF w.tasks = <<>> THEN w
  ELSE LET t == Head(w.tasks)
       IN Complete(CallNext([w EXCEPT !.tasks = Tail(@)], t.k, t.pos, t.err))

\* C3: a fault thrown by a handler is caught by the runner, which goes on as if
\* the handler had called next(fault): the finished run has the history (the
\* handlers invoked, with what they received, the terminal continuation and the
\* host's next with their errors) of the same request against the same handlers
\* with `throw e` replaced by `next(e)`; and every fault is caught, the runner
\* going on to a handler or to its terminal continuation at once.
C3_ThrowIsNext ==
  \A r \in Reqs :
    LET w == rq[r] IN
    /\ w.thrown = None
    /\ \A p \in Events(w, "throw") :
         /\ p < Len(w.log)
         /\ w.log[p + 1].t \in {"invoke", "terminal"}
         /\ w.log[p + 1].k = w.log[p].k
         /\ w.log[p + 1].t = "invoke" => w.log[p + 1].err = w.log[p].err
    /\ (Finished(w) /\ promise.state = "resolved") =>
         LET twin == Complete(CatchNext(Respond([Idle EXCEPT !.phase = "arrived", !.req = w.req],
                                                promise.openapi, ThrowToNext(Store))))
         IN AsAdvance(w.log) = twin.log

C3_Witness ==
  \E r \in Reqs :
    /\ Finished(rq[r])
    /\ \E p \in Events(rq[r], "throw") :
         /\ rq[r].log[p + 1].t = "invoke"
         /\ rq[r].log[p + 1].pos > rq[r].log[p].pos + 1
         /\ rq[r].log[p + 1].err = UserError
\* C4: the terminal continuation gets the error of the call of run that emptied
\* the queue, and the host's next gets that same error (none when the last
\* advance carried none); an error for which no error-handler is left reaches
\* the host's next unchanged; and in a run without writes the host's next is
\* called by the terminal continuation only.
C4_Terminal ==
  \A r \in Reqs :
    LET w == rq[r]
        n == Len(Store)
    IN \A p \in 1 .. Len(w.log) :
         LET e == w.log[p] IN
         /\ (e.t = "terminal" /\ e.k = 1) =>
              /\ p > 1 /\ IsCall(w.log[p - 1]) /\ w.log[p - 1].err = e.err
              /\ p < Len(w.log) /\ w.log[p + 1].t = "host" /\ w.log[p + 1].err = e.err
         /\ (IsCall(e) /\ e.k = 1 /\ Truthy(e.err)
               /\ \A j \in Remaining(n, e.rem) : ~IsErrorHandling(Store[j])) =>
              /\ p + 2 <= Len(w.log)
              /\ w.log[p + 1].t = "terminal" /\ w.log[p + 2].t = "host"
              /\ w.log[p + 2].err = e.err
         /\ (e.t = "host" /\ Matched(w)) => p > 1 /\ w.log[p - 1].t = "terminal"

C4_Witness ==
  \E r \in Reqs :
    /\ Finished(rq[r]) /\ Matched(rq[r]) /\ rq[r].req.valid
    /\ FlowOf(rq[r].log) # <<>>
    /\ HostCalls(rq[r].log) = <<UserError>>

\* the calls of res.send: those that entered the override, those that went
\* to the transport as they were
SendCalls(w) ==
  { p \in 1 .. Len(w.log) :
      w.log[p].t = "transform" \/ (w.log[p].t = "write" /\ w.log[p].rem = 0) }

\* C5: for a matched request the override validates and serializes at most
\* once, and only the first call of res.send; once it has run res.send is the
\* original write function, so every later call is a raw pass-through; a first
\* call that is raw comes after next() of middleware() restored the function.
C5_TransformOnce ==
  \A r \in Reqs :
    LET w == rq[r] IN
    Matched(w) =>
      /\ Cardinality(Events(w, "transform")) <= 1
      /\ \A p \in Events(w, "transform") :
           /\ \A q \in SendCalls(w) : q >= p
           /\ w.send = "original"
      /\ \A p \in SendCalls(w) :
           (\E q \in SendCalls(w) : q < p) => w.log[p].t = "write"
      /\ \A p \in SendCalls(w) :
           (w.log[p].t = "write" /\ \A q \in SendCalls(w) : q >= p)
             => \E q \in Events(w, "host") : q < p

C5_Witness ==
  \E r \in Reqs :
    /\ Finished(rq[r]) /\ Matched(rq[r])
    /\ \E p \in Events(rq[r], "transform") :
         \E q \in SendCalls(rq[r]) : q > p /\ rq[r].log[q].t = "write" /\ rq[r].log[q].rem = 0

\* the position of the handler of the top-level runner that was invoked last
\* before step p of the history (0: none)
RECURSIVE Running(_, _)
Running(log, p) ==
  IF p = 0 THEN 0
  ELSE IF log[p].t = "invoke" /\ log[p].k = 1 THEN log[p].pos
  ELSE Running(log, p - 1)

\* C6: when serialization of the written body fails the status is 500, the
\* body never reaches the transport, and the failure is given to the
\* error-handlers still left in the request's chain before it reaches the host.
C6_FailureIntoChain ==
  \A r \in Reqs :
    LET w == rq[r] IN
    \A p \in Events(w, "transform") :
      w.log[p].body = "bad" =>
        /\ w.statusCode = "500"
        /\ \A q \in Events(w, "write") : w.log[q].body # "bad"
        /\ (\E j \in 1 .. Len(Store) : j > Running(w.log, p) /\ IsErrorHandling(Store[j])) =>
             \E q \in Events(w, "invoke") :
               /\ q > p
               /\ w.log[q].err.name = "Response has one or more errors"
               /\ \A h \in p .. q : w.log[h].t # "host"

Invalid(w) == Matched(w) /\ ~w.req.valid

\* C7: a request that matches an operation and fails validation has the
\* operation attached and its chain started with the validation error: a normal
\* handler, a controller and the mock engine run only after a registered
\* error-handler received that error, and without an error-handler the host's
\* next receives it.
C7_ClientError ==
  \A r \in Reqs :
    LET w == rq[r] IN
    (w.phase = "dispatched" /\ Invalid(w)) =>
      /\ w.operation = PathMatch(promise.openapi, w.req.path)
      /\ w.operation # 0
      /\ w.log[1].t = "start" /\ w.log[1].err.statusCode = "400"
      /\ \A p \in 1 .. Len(w.log) :
           (\/ w.log[p].t \in {"controller", "mockController", "decision", "random"}
            \/ w.log[p].t = "invoke" /\ ~IsErrorHandling(Store[w.log[p].pos]))
             => \E q \in Events(w, "invoke") :
                  q < p /\ IsErrorHandling(Store[w.log[q].pos]) /\ w.log[q].err = w.log[1].err
      /\ (\A j \in 1 .. Len(Store) : ~IsErrorHandling(Store[j]))
           => HostCalls(w.log) = <<w.log[1].err>>

C7_Witness ==
  \E r \in Reqs :
    /\ Finished(rq[r]) /\ Invalid(rq[r])
    /\ Len(Store) = 2 /\ Store[1].kind = "controllers" /\ IsErrorHandling(Store[2])
    /\ FlowOf(rq[r].log) = <<2>>
    /\ rq[r].log[2].err.statusCode = "400"

\* the mock trigger the request carries for the handler at position pos, by
\* priority: the mock header, the mock query parameter, automatic mode
Trigger(w, pos) ==
  IF w.req.headers[options.mockHeader] # Absent THEN "header"
  ELSE IF w.req.query[options.mockQuery] # Absent THEN "query"
  ELSE IF Store[pos].automatic THEN "automatic"
  ELSE "none"

\* C8: the decision of a mocks() step has the source of the highest-priority
\* trigger present; with only the query parameter its source is 'query' and its
\* status code the parameter's value; with no trigger and automatic mode off no
\* decision is attached and next() is called.
C8_Precedence ==
  \A r \in Reqs :
    LET w == rq[r] IN
    \A p \in Events(w, "decision") :
      LET e == w.log[p] IN
      /\ e.body = Trigger(w, e.pos)
      /\ (Trigger(w, e.pos) = "query" /\ w.req.query[options.mockQuery] # "")
           => e.code = w.req.query[options.mockQuery]
      /\ Trigger(w, e.pos) = "none"
           => w.log[p + 1].t = "advance" /\ w.log[p + 1].err = None

\* the request carries a manual trigger with an empty value
EmptyTrigger(w) ==
  \/ w.req.headers[options.mockHeader] = ""
  \/ w.req.headers[options.mockHeader] = Absent /\ w.req.query[options.mockQuery] = ""

\* C9: with a manual trigger present and empty, the decided status code is the
\* first response code of the operation when it has one; when it has none and
\* no mock controller is bound, the step fails with an error of status 501.
C9_EmptyTrigger ==
  \A r \in Reqs :
    LET w == rq[r] IN
    \A p \in Events(w, "decision") :
      LET e == w.log[p]
          operation == promise.openapi.paths[w.operation].operation
      IN EmptyTrigger(w) =>
           IF operation.responses # <<>>
             THEN e.body # "none" /\ e.code = operation.responses[1].code
             ELSE registries[Store[e.pos].reg].map[w.operation].t = "none"
                    => /\ w.log[p + 1].t = "advance"
                       /\ w.log[p + 1].err.statusCode = "501"

\* the registry binds a controller to the operation
Bound(registry, operation) ==
  registry.state = "resolved" /\ registry.map[operation].t # "none"

OperationOf(w) == promise.openapi.paths[w.operation].operation

\* generation cannot succeed for the status code: it is not a declared
\* response, random() of the schema gives an error or a warning, or the
\* negotiated content type has no schema
CannotGenerate(w, code) ==
  LET operation == OperationOf(w) IN
  \/ ~HasResponse(operation, code)
  \/ /\ HasResponse(operation, code)
     /\ \/ ResponseOf(operation, code).schema \in {"error", "warning"}
        \/ ResponseOf(operation, code).content = "noschema"

\* C11: where a mock is decided, no controller is bound and generation cannot
\* succeed (status code not declared, random() fails or warns, no schema for
\* the content type), the mocks() step advances with an error of status 501
\* and the mock engine has written nothing before it.
C11_Unable ==
  \A r \in Reqs :
    LET w == rq[r] IN
    \A p \in Events(w, "decision") :
      LET e == w.log[p] IN
      (/\ e.body # "none"
       /\ ~Bound(registries[Store[e.pos].reg], w.operation)
       /\ CannotGenerate(w, e.code)) =>
        LET q == IF w.log[p + 1].t = "random" THEN p + 2 ELSE p + 1 IN
        /\ w.log[q].t = "advance" /\ w.log[q].pos = e.pos
        /\ w.log[q].err.statusCode = "501"
        /\ \A h \in p .. q : w.log[h].t \notin {"write", "transform"}

\* C12: a generated value (random() succeeded) is written with the decided
\* status code straight to the transport: the write that follows generation is
\* a raw write, not a pass through the validating override.
C12_Bypass ==
  \A r \in Reqs :
    LET w == rq[r] IN
    \A p \in Events(w, "random") :
      w.log[p].body = "value" =>
        /\ w.log[p + 1].t = "write"
        /\ w.log[p + 1].rem = 0
        /\ w.log[p + 1].body = "random"
        /\ w.log[p + 1].code = w.mock.statusCode

\* C13: the operation's first response has a schema, no controller is
\* registered for it and the mock header is sent empty: the response is written
\* with the first declared status code, the generated body and, at the time of
\* the write, the marker header `mock`.
C13_Scenario ==
  \A r \in Reqs :
    LET w == rq[r] IN
    \A p \in Events(w, "decision") :
      (/\ w.req.headers[options.mockHeader] = ""
       /\ \A i \in 1 .. Len(registries) : ~Bound(registries[i], w.operation)
       /\ promise.openapi.swagger
       /\ OperationOf(w).responses # <<>>
       /\ OperationOf(w).responses[1].schema = "value") =>
        \E q \in Events(w, "write") :
          /\ q > p
          /\ w.log[q].code = OperationOf(w).responses[1].code
          /\ w.log[q].body = "random"
          /\ w.log[q].marker = "mock"

\* the controller name and the operation name the build resolves for the
\* operation of path item i
ControllerName(openapi, i) ==
  IF openapi.paths[i].operation.xController # "" THEN openapi.paths[i].operation.xController
  ELSE IF openapi.paths[i].xController # "" THEN openapi.paths[i].xController
  ELSE openapi.xController

OperationName(openapi, i) ==
  IF openapi.paths[i].operation.xOperation # "" THEN openapi.paths[i].operation.xOperation
  ELSE openapi.paths[i].operation.operationId

Named(openapi, i) == ControllerName(openapi, i) # "" /\ OperationName(openapi, i) # ""

\* the target gives an object or a directory to look the bindings up in
Usable(target) ==
  target.type \in {"object", "string"} \/ (target.type = "function" /\ target.returns)

\* the controllers the target provides: controller name -> operation name -> value
Provided(target) == IF target.type = "string" THEN Disk[target.path] ELSE target.object

\* the binding of operation i is missing: no such controller, or no such
\* operation in it (for an object, an entry that is null counts as none)
Missing(openapi, target, i) ==
  /\ Named(openapi, i)
  /\ \/ ControllerName(openapi, i) \notin DOMAIN Provided(target)
     \/ OperationName(openapi, i) \notin DOMAIN Provided(target)[ControllerName(openapi, i)]
     \/ /\ target.type # "string"
        /\ Provided(target)[ControllerName(openapi, i)][OperationName(openapi, i)].t = "falsy"

\* the value bound to operation i, NoHandler when the binding is missing
BoundValue(openapi, target, i) ==
  IF ~Named(openapi, i) \/ Missing(openapi, target, i) THEN NoHandler
  ELSE Provided(target)[ControllerName(openapi, i)][OperationName(openapi, i)]

\* the binding of operation i is there and is not callable: a value other than
\* a function or an array, or an array with an item that is not a function
Rejected(openapi, target, i) ==
  LET v == BoundValue(openapi, target, i) IN
  \/ v.t = "other"
  \/ v.t = "array" /\ \E n \in 1 .. Len(v.items) : v.items[n].t # "function"

NotFoundTexts ==
  {"Controller not found", "Controller operation not found: ", "Controller file not found",
   "Operation not found: "}

\* the messages of a failed build that say a binding was not found
NotFoundMessages(error) ==
  { m \in 1 .. Len(error.messages) : error.messages[m].message \in NotFoundTexts }

C15_Complete ==
  \A n \in 1 .. Len(registries) :
    LET registry == registries[n] IN
    registry.state = "resolved" =>
      \A i \in 1 .. Len(promise.openapi.paths) :
        Named(promise.openapi, i) =>
          /\ registry.map[i].t \in {"function", "chain"}
          /\ \A j \in 1 .. Len(registry.map[i].items) : IsFunction(registry.map[i].items[j])

\* the steps of the history at which the handler registered for registry n
\* was invoked by the request's top-level runner
Awaits(w, n) ==
  { p \in Events(w, "invoke") :
      w.log[p].k = 1 /\ Store[w.log[p].pos].kind # "user" /\ Store[w.log[p].pos].reg = n }

\* the reaction of the handler invoked at step p has run
Reacted(w, p) == \A i \in 1 .. Len(w.tasks) : ~(w.tasks[i].k = 1 /\ w.tasks[i].pos = w.log[p].pos)

\* C16: the lookup of a registration is built at most once, whatever the
\* number of requests and their order; a request's handler reacts only once
\* the build has settled; when the build failed, every request that reached
\* the handler goes on with that one failure on its error path and no
\* controller of the registration is called; when it succeeded every request
\* that reached the handler was served from the one lookup.
C16_SharedBuild ==
  \A n \in 1 .. Len(registries) :
    /\ registries[n].loads <= 1
    /\ \A r \in Reqs :
         LET w == rq[r] IN
         \A p \in Awaits(w, n) :
           Reacted(w, p) =>
             /\ registries[n].state # "pending"
             /\ registries[n].state = "rejected" =>
                  /\ w.log[p + 1].t = "advance"
                  /\ w.log[p + 1].pos = w.log[p].pos
                  /\ w.log[p + 1].err = registries[n].error
                  /\ Truthy(w.log[p + 1].err)
             /\ (registries[n].state = "resolved" /\ ~registries[n].isMock) =>
                  IF Bound(registries[n], w.operation)
                    THEN w.log[p + 1].t = "controller"
                    ELSE w.log[p + 1].t = "advance" /\ w.log[p + 1].err = None

C16_Witness ==
  \E n \in 1 .. Len(registries) :
    /\ registries[n].state = "rejected" /\ registries[n].loads = 1
    /\ \A r \in Reqs :
         /\ Finished(rq[r])
         /\ \E p \in Awaits(rq[r], n) : rq[r].log[p + 1].err = registries[n].error
         /\ HostCalls(rq[r].log) = <<registries[n].error>>

RECURSIVE Alone(_)
\* the request with its pending callbacks made one after the other, nothing
\* else being in flight
Alone(w) ==
  IF w.tasks = <<>> THEN w
  ELSE LET t == Head(w.tasks)
           w1 == [w EXCEPT !.tasks = Tail(@)]
       IN Alone(CASE t.type = "advance" -> CallNext(w1, t.k, t.pos, t.err)
                  [] t.type = "controllers" ->
                       ControllersThen(w1, t.k, t.pos, registries[t.h.reg])
                  [] OTHER ->
                       MocksThen(w1, t.k, t.pos, registries[t.h.reg], t.h.automatic,
                                 promise.openapi))

\* C19: with two requests in flight in any interleaving, a finished request
\* has the history (the handlers invoked, what they received, the decision, the
\* writes, the error it ends with) of the same request run alone against the
\* registered handler list, and the list still has every handler its runner
\* started with.
C19_Isolation ==
  \A r \in Reqs :
    LET w == rq[r] IN
    /\ w.runners # <<>> => w.runners[1].n = Len(Store)
    /\ (/\ Finished(w) /\ promise.state = "resolved"
        /\ \A n \in 1 .. Len(registries) : registries[n].state # "pending") =>
         w.log = Alone(CatchNext(Respond([Idle EXCEPT !.phase = "arrived", !.req = w.req],
                                         promise.openapi, Store))).log

C19_Witness ==
  /\ \A r \in Reqs :
       /\ Finished(rq[r]) /\ Len(Store) = 2
       /\ \E p \in Events(rq[r], "advance") : Store[rq[r].log[p].pos].body = "later"
       /\ \E p \in Events(rq[r], "invoke") : Store[rq[r].log[p].pos].kind # "user"
  /\ rq[1].req # rq[2].req
  /\ rq[1].log # rq[2].log

\* C17: an unmatched request with fallthrough on still runs the handlers
\* registered with use() under the chain rules: the two chains of the tests
\* run 1, 3, 4 and 1, 3 before control passes on.
C17_UnmatchedFlow ==
  \A r \in Reqs :
    LET w == rq[r] IN
    (Finished(w) /\ Unmatched(w) /\ options.fallthrough) =>
      /\ Store = <<User(3, "throw"), User(3, "next"), User(4, "next"), User(3, "next")>>
           => FlowOf(w.log) = <<1, 3, 4>>
      /\ Store = <<User(3, "next"), User(4, "next"), User(3, "next")>>
           => FlowOf(w.log) = <<1, 3>>

\* C18: an unmatched request with fallthrough off has the host's next called
\* with an error whose statusCode is 404.
C18_NotFoundError ==
  \A r \in Reqs :
    LET w == rq[r] IN
    (Finished(w) /\ Unmatched(w) /\ ~options.fallthrough) =>
      /\ Len(HostCalls(w.log)) = 1
      /\ HostCalls(w.log)[1].statusCode = "404"

\* the steps at which the handler at position pos of the top-level runner
\* forwarded control: it called its advance callback, or it threw
Forwards(w, pos) ==
  { q \in 1 .. Len(w.log) :
      w.log[q].t \in {"advance", "throw"} /\ w.log[q].k = 1 /\ w.log[q].pos = pos }

\* every handler invoked after another was invoked once that other one, the
\* one started last before it, had forwarded control
Sequential(w) ==
  \A p \in Events(w, "invoke") :
    (w.log[p].k = 1 /\ Running(w.log, p - 1) # 0) =>
      \E q \in Forwards(w, Running(w.log, p - 1)) : q < p

\* C20 as stated: the chain never starts a handler while the handler started
\* before it has neither called its advance callback nor thrown.
C20_OneAtATime == \A r \in Reqs : Sequential(rq[r])

\* C20 amended: a handler is started only by a forward: the step before its
\* invocation is the first call of the runner (no handler started yet) or the
\* advance call or caught fault of a handler started earlier; and in a request
\* none of whose handlers forwards more than once, a handler is started only
\* once the handler started before it has forwarded.
C20_ByForward ==
  \A r \in Reqs :
    LET w == rq[r] IN
    /\ \A p \in Events(w, "invoke") :
         w.log[p].k = 1 =>
           /\ p > 1 /\ IsCall(w.log[p - 1]) /\ w.log[p - 1].k = 1
           /\ IF w.log[p - 1].t = "start"
                THEN Running(w.log, p - 1) = 0
                ELSE \E q \in Events(w, "invoke") :
                       q < p - 1 /\ w.log[q].k = 1 /\ w.log[q].pos = w.log[p - 1].pos
    /\ (\A pos \in 1 .. Len(Store) : Cardinality(Forwards(w, pos)) <= 1) => Sequential(w)

C20_Witness ==
  \E r \in Reqs :
    /\ Finished(rq[r])
    /\ Store = <<User(3, "nextTwice"), User(3, "later"), User(3, "next")>>
    /\ FlowOf(rq[r].log) = <<1, 2, 3>>
    /\ \E p \in Events(rq[r], "invoke") :
         rq[r].log[p].pos = 3 /\ \A q \in Forwards(rq[r], 2) : q > p

\* C21: in the request's top-level chain the marker header is absent when a
\* handler is dispatched and when the terminal continuation is invoked; it is
\* `controller` only once a controller of controllers() was called and `mock`
\* only once a controller of mocks() was called; and it is absent whenever the
\* host's next is called.
C21_MarkerCleared ==
  \A r \in Reqs :
    LET w == rq[r] IN
    \A p \in 1 .. Len(w.log) :
      LET e == w.log[p] IN
      /\ (e.t \in {"invoke", "terminal"} /\ e.k = 1) => e.marker = ""
      /\ e.marker = "controller" => \E q \in Events(w, "controller") : q <= p
      /\ e.marker = "mock" => \E q \in Events(w, "mockController") : q <= p
      /\ e.marker \in {"", "controller", "mock"}
      /\ e.t = "host" => e.marker = ""

\* the array bound to the request's operation by the registry of the handler
\* that started runner k, as the runner's store
StoreOf(w, k) ==
  IF k = 1 THEN Store
  ELSE ArrayStore(registries[Store[w.runners[k].next.pos].reg].map[w.operation].items)

\* the call of run at step p of runner k is followed by the invocation of the
\* first handler left whose kind matches the error, with that error, or by the
\* terminal continuation with that error when none is left
Routed(w, k, p) ==
  LET e == w.log[p]
      store == StoreOf(w, k)
      left == Remaining(Len(store), e.rem)
  IN /\ p < Len(w.log)
     /\ w.log[p + 1].k = k
     /\ IF \E j \in left : Matches(store[j], e.err)
          THEN /\ w.log[p + 1].t = "invoke"
               /\ w.log[p + 1].pos \in left
               /\ Matches(store[w.log[p + 1].pos], e.err)
               /\ \A j \in left : j < w.log[p + 1].pos => ~Matches(store[j], e.err)
               /\ w.log[p + 1].err = e.err
               /\ w.log[p + 1].body = store[w.log[p + 1].pos].body
          ELSE w.log[p + 1].t = "terminal" /\ w.log[p + 1].err = e.err

\* C22: a controller bound as an array runs as a chain of its own: each run
\* is started by the handler that called the controller, from the full array
\* and without an error; every call of its run (the first, an advance, a caught
\* fault) is routed as the top-level chain routes (first function left of the
\* matching kind, the ones before it skipped, a fault caught and passed on as
\* the error); and its terminal continuation is the advance callback of the
\* calling handler, called with the error that was left, after which the outer
\* chain is routed as after any advance with that error.
C22_NestedChain ==
  \A r \in Reqs :
    LET w == rq[r] IN
    \A k \in 2 .. Len(w.runners) :
      LET R == w.runners[k] IN
      /\ R.next.k = 1
      /\ R.n = Len(StoreOf(w, k))
      /\ ~R.clear
      /\ \A p \in 1 .. Len(w.log) :
           LET e == w.log[p] IN
           e.k = k =>
             /\ e.t = "start" =>
                  /\ e.rem = Len(StoreOf(w, k)) /\ e.err = None
                  /\ w.log[p - 1].t \in {"controller", "mockController"}
                  /\ w.log[p - 1].pos = R.next.pos
             /\ IsCall(e) => Routed(w, k, p)
             /\ e.t = "terminal" =>
                  /\ p + 1 < Len(w.log)
                  /\ w.log[p + 1].t = "advance" /\ w.log[p + 1].k = 1
                  /\ w.log[p + 1].pos = R.next.pos
                  /\ w.log[p + 1].err = e.err
                  /\ Routed(w, 1, p + 1)

C22_Witness ==
  /\ \A r \in Reqs :
       /\ Finished(rq[r]) /\ Len(rq[r].runners) = 2
       /\ \E p \in Events(rq[r], "start") : rq[r].log[p].k = 2 /\ rq[r].log[p].rem = 2
       /\ \E p \in Events(rq[r], "terminal") :
            /\ rq[r].log[p].k = 2 /\ rq[r].log[p].err = UserError
            /\ rq[r].log[p + 2].t = "invoke" /\ rq[r].log[p + 2].err = UserError
  /\ \E p \in Events(rq[1], "throw") : rq[1].log[p].k = 2

\* what a handler body does when its deferred call is made before it returns
SyncBody(body) ==
  CASE body = "later" -> "next"
    [] body = "laterErr" -> "nextErr"
    [] OTHER -> body

\* the registered handlers with every deferred advance made at once
Sync(store) == [i \in 1 .. Len(store) |-> [store[i] EXCEPT !.body = SyncBody(@)]]

\* a history with its handlers read as their synchronous counterparts
AsSync(log) ==
  [p \in 1 .. Len(log) |->
     IF log[p].t = "invoke" THEN [log[p] EXCEPT !.body = SyncBody(@)] ELSE log[p]]

\* C23: whatever handlers of a chain advance at once and whatever handlers
\* advance later, the history of the request (the handlers invoked in their
\* order, the error each receives, the queue at each call of run, the error
\* given to the terminal continuation and to the host's next) is, step for
\* step, the history of the same request against the same handlers all
\* advancing at once, and the finished histories are equal.
C23_SyncAsync ==
  \A r \in Reqs :
    LET w == rq[r] IN
    (w.phase = "dispatched" /\ promise.state = "resolved") =>
      LET twin == CatchNext(Respond([Idle EXCEPT !.phase = "arrived", !.req = w.req],
                                    promise.openapi, Sync(Store)))
      IN /\ twin.tasks = <<>>
         /\ Len(w.log) <= Len(twin.log)
         /\ AsSync(w.log) = SubSeq(twin.log, 1, Len(w.log))
         /\ Finished(w) => AsSync(w.log) = twin.log

C23_Witness ==
  \E r \in Reqs :
    /\ Finished(rq[r]) /\ Matched(rq[r]) /\ rq[r].req.valid
    /\ Store = <<User(3, "laterErr"), User(4, "later"), User(3, "next")>>
    /\ FlowOf(rq[r].log) = <<1, 2, 3>>
    /\ \E p \in Events(rq[r], "invoke") : rq[r].log[p].pos = 2 /\ rq[r].log[p].err = UserError
    /\ HostCalls(rq[r].log) = <<None>>

\* C24: for a definition of version 3, where a mock is decided, no controller
\* is bound, the decided status code is declared and random() of the schema of
\* the negotiated content type succeeds, the value is generated and written
\* with the decided status code, and the step does not fail with status 501.
C24_V3Generates ==
  \A r \in Reqs :
    LET w == rq[r] IN
    \A p \in Events(w, "decision") :
      LET e == w.log[p] IN
      (/\ e.body # "none"
       /\ ~promise.openapi.swagger /\ LeadingDigits(promise.openapi.openapi) = <<"3">>
       /\ ~Bound(registries[Store[e.pos].reg], w.operation)
       /\ HasResponse(OperationOf(w), e.code)
       /\ ResponseOf(OperationOf(w), e.code).content = "value") =>
        /\ w.log[p + 1].t = "random"
        /\ \E q \in Events(w, "write") :
             q > p /\ w.log[q].body = "random" /\ w.log[q].code = e.code
        /\ \A q \in Events(w, "advance") : q > p => w.log[q].err.statusCode # "501"

\* the steps of the history that are calls of run of the top-level runner
Calls(w) == { p \in 1 .. Len(w.log) : IsCall(w.log[p]) /\ w.log[p].k = 1 }

\* the top-level runner of the request was started
Started(w) == w.phase = "dispatched" /\ w.runners # <<>>

\* the request has ended: a response was written, or next of middleware(), the
\* runner's terminal continuation, was called
Ended(w) == Events(w, "write") # {} \/ Events(w, "host") # {}

\* C25: with handlers that advance exactly once (at once or later), throw, or
\* write the response: every call of run finds a queue shorter than the call
\* before it did, and no handler is taken twice; the terminal continuation is
\* called at most once, and exactly once in a finished run that wrote nothing;
\* and every started run leads to a written response or to the terminal
\* continuation.
C25_Terminates ==
  /\ [](\A r \in Reqs :
         LET w == rq[r] IN
         /\ \A p \in Calls(w) : \A q \in Calls(w) : p < q => w.log[q].rem < w.log[p].rem
         /\ \A p \in Events(w, "invoke") : \A q \in Events(w, "invoke") :
              p < q => w.log[p].pos < w.log[q].pos
         /\ Started(w) => Len(w.runners[1].middlewares) + Len(FlowOf(w.log)) <= Len(Store)
         /\ Cardinality(Events(w, "host")) <= 1
         /\ Cardinality({ p \in Events(w, "terminal") : w.log[p].k = 1 }) <= 1
         /\ (Started(w) /\ Finished(w) /\ Events(w, "write") = {}) =>
              Cardinality(Events(w, "host")) = 1)
  /\ \A r \in Reqs : Started(rq[r]) ~> Ended(rq[r])

C25_Witness ==
  \E r \in Reqs :
    /\ Started(rq[r]) /\ Finished(rq[r])
    /\ Store = <<User(3, "later"), User(3, "throw"), User(4, "next")>>
    /\ FlowOf(rq[r].log) = <<1, 2, 3>>
    /\ Events(rq[r], "write") = {}
    /\ HostCalls(rq[r].log) = <<None>>

\* the steps at which the top-level runner invoked a handler
Invocations(w) == { p \in Events(w, "invoke") : w.log[p].k = 1 }

\* C26: within one run of the request's chain, whatever the handlers do (call
\* the advance callback twice, call it at once and again later, throw and call
\* it later), the handlers are invoked in strictly increasing position of the
\* registered list, so no registered handler is invoked twice, and each
\* invocation is of the handler registered at that position.
C26_OncePerRun ==
  \A r \in Reqs :
    LET w == rq[r] IN
    /\ \A p \in Invocations(w) : \A q \in Invocations(w) :
         p < q => w.log[p].pos < w.log[q].pos
    /\ \A p \in Invocations(w) :
         /\ w.log[p].pos \in 1 .. Len(Store)
         /\ w.log[p].body = Store[w.log[p].pos].body
    /\ Cardinality(Invocations(w)) <= Len(Store)

C26_Witness ==
  \E r \in Reqs :
    /\ Finished(rq[r])
    /\ Store = <<User(3, "laterThrow"), User(4, "next"), User(3, "nextLater")>>
    /\ FlowOf(rq[r].log) = <<1, 2, 3>>
    /\ Cardinality(Forwards(rq[r], 1)) = 2
    /\ Cardinality(Forwards(rq[r], 3)) = 2
    /\ Len(HostCalls(rq[r].log)) = 3
====
